---- MODULE Spec2Model ----
(***************************************************************************)
(* Model of wes (src/main.rs): a disk usage summary.  run() walks a        *)
(* directory, feeds every entry to DirTree (add_dir / add_file) and to the *)
(* extension totals, then prints the top extensions and the sizes of the   *)
(* root's immediate children.                                              *)
(*                                                                         *)
(* Representation.                                                         *)
(*  - An OsString path segment is a sequence of one-character strings, a   *)
(*    Path is a sequence of segments.                                      *)
(*  - A DirTree is the function from the path of each of its nodes (the    *)
(*    root is <<>>) to that node's `size`; the children of node p are the  *)
(*    nodes p \o <<name>>, and a node's `name` is its last segment (the    *)
(*    root's is opts.root).                                                *)
(*  - An Option is a set with at most one element.                         *)
(*  - Sizes are u64 in the source; the model keeps every total far below   *)
(*    2^64, so the additions are exact.                                    *)
(*  - Each printed line is kept as a record of the values it is formatted  *)
(*    from; ByteSize and TabWriter formatting are not modelled.            *)
(***************************************************************************)
EXTENDS Integers, Sequences, FiniteSets, Bags, TLC

VARIABLES
    dir_tree,     \* run: `dir_tree`, path of node -> size
    ext_sizes,    \* run: `ext_sizes`, extension -> total
    pc,           \* position in run()
    opts,         \* parsed command line: top_exts, sort_by, reverse
    ext_vec,      \* print_top_extensions: the Vec collected from the map
    directories,  \* print_space_usage: the Vec collected from children
    stdout,       \* lines written to standard output, in order
    stderr,       \* lines written to standard error, in order
    walker,       \* the WalkDir iterator: "start", "open" or "end"
    calls         \* history: bag of the add_dir / add_file calls made so far

vars == <<dir_tree, ext_sizes, pc, opts, ext_vec, directories, stdout, stderr, walker, calls>>

----------------------------------------------------------------------------
(* Bounds *)

MaxDepth == 2      \* longest root-relative path, in segments
MaxSize == 2       \* largest file size
MaxEntries == 4    \* entries a walk yields, the root's own entry included
MaxCalls == 3      \* calls made on a tree on its own
MaxLimit == 2      \* largest --top-exts value

DirNames == { <<"a">>, <<"b">> }
FileNames == { <<"n">>, <<"w", ".", "t">>, <<"z", ".", "l">>, <<".", "h">>, <<"c", ".">> }
Root == <<"r", ".", "t">>
Sizes == 0..MaxSize

RECURSIVE PathsOver(_, _)
PathsOver(names, n) ==
    IF n = 0 THEN { <<>> }
    ELSE LET shorter == PathsOver(names, n - 1)
         IN  shorter \cup { Append(p, d) : p \in { q \in shorter : Len(q) = n - 1 }, d \in names }

ApiPaths == PathsOver(DirNames, MaxDepth)

----------------------------------------------------------------------------
(* Helpers *)

IsPrefix(p, q) == Len(p) <= Len(q) /\ SubSeq(q, 1, Len(p)) = p
IsProperPrefix(p, q) == Len(p) < Len(q) /\ SubSeq(q, 1, Len(p)) = p

RECURSIVE SumSizes(_)
\* sum of the sizes of the calls in the bag b, counting copies
SumSizes(b) ==
    IF DOMAIN b = {} THEN 0
    ELSE LET e == CHOOSE x \in DOMAIN b : TRUE
         IN  b[e] * e.size + SumSizes([x \in DOMAIN b \ {e} |-> b[x]])

\* the calls of the bag b that satisfy P
BagFilter(b, P(_)) == [e \in { x \in DOMAIN b : P(x) } |-> b[e]]

RECURSIVE SumFun(_)
SumFun(f) ==
    IF DOMAIN f = {} THEN 0
    ELSE LET e == CHOOSE x \in DOMAIN f : TRUE
         IN  f[e] + SumFun([x \in DOMAIN f \ {e} |-> f[x]])

----------------------------------------------------------------------------
(* DirTree *)

EmptyMap == [x \in {} |-> 0]

\* DirTree::new
DirTreeNew == (<<>> :> 0)

\* a fresh node replaces the one already there
InsertAlways(tree, p) == (p :> 0) @@ [q \in DOMAIN tree \ {p} |-> tree[q]]

\* parent.children.entry(dir).or_insert_with(|| DirTree::new(dir))
OrInsert(tree, p) == IF p \in DOMAIN tree THEN tree ELSE tree @@ (p :> 0)

RECURSIVE add_dir_loop(_, _, _)
add_dir_loop(tree, path, i) ==
    IF i > Len(path) THEN tree
    ELSE add_dir_loop(OrInsert(tree, SubSeq(path, 1, i)), path, i + 1)

add_dir(tree, path) == add_dir_loop(tree, path, 1)

\* the file's own name is entered as a node too
RECURSIVE add_file_loop_keep_last(_, _, _, _)
add_file_loop_keep_last(tree, path, size, i) ==
    IF i > Len(path) THEN tree
    ELSE LET p == SubSeq(path, 1, i)
             t == OrInsert(tree, p)
         IN  add_file_loop_keep_last([t EXCEPT ![p] = @ + size], path, size, i + 1)

\* the loop of add_file: every segment but the last is entered and charged
RECURSIVE add_file_loop(_, _, _, _)
add_file_loop(tree, path, size, i) ==
    IF i > Len(path) THEN tree
    ELSE IF i = Len(path) THEN add_file_loop(tree, path, size, i + 1)  \* peek() is None: continue
    ELSE LET p == SubSeq(path, 1, i)
             t == OrInsert(tree, p)
         IN  add_file_loop([t EXCEPT ![p] = @ + size], path, size, i + 1)

\* only the root is charged, the ancestors are entered with nothing added
add_file_root_only(tree, path, size) ==
    add_dir([tree EXCEPT ![<<>>] = @ + size], SubSeq(path, 1, Len(path) - 1))

add_file(tree, path, size) ==
    add_file_loop([tree EXCEPT ![<<>>] = @ + size], path, size, 1)

----------------------------------------------------------------------------
(* The tree on its own: any sequence of add_dir and add_file calls *)

DirCall(p) == [op |-> "dir", path |-> p, size |-> 0]
FileCall(p, s) == [op |-> "file", path |-> p, size |-> s]

InitTree ==
    /\ dir_tree = DirTreeNew
    /\ ext_sizes = EmptyMap
    /\ pc = "walk"
    /\ opts = [top_exts |-> {}, sort_by |-> "size", reverse |-> FALSE]
    /\ ext_vec = <<>>
    /\ directories = <<>>
    /\ stdout = <<>>
    /\ stderr = <<>>
    /\ walker = "start"
    /\ calls = EmptyBag

AddDirectory(p) ==
    /\ BagCardinality(calls) < MaxCalls
    /\ dir_tree' = add_dir(dir_tree, p)
    /\ calls' = calls (+) SetToBag({DirCall(p)})
    /\ UNCHANGED <<ext_sizes, pc, opts, ext_vec, directories, stdout, stderr, walker>>

AddFile(p, s) ==
    /\ BagCardinality(calls) < MaxCalls
    /\ dir_tree' = add_file(dir_tree, p, s)
    /\ calls' = calls (+) SetToBag({FileCall(p, s)})
    /\ UNCHANGED <<ext_sizes, pc, opts, ext_vec, directories, stdout, stderr, walker>>

NextTree ==
    \/ \E p \in ApiPaths : AddDirectory(p)
    \/ \E p \in ApiPaths, s \in Sizes : AddFile(p, s)

SpecTree == InitTree /\ [][NextTree]_vars

----------------------------------------------------------------------------
(* Paths and ordering *)

\* Path::strip_prefix: the rest of path after base, None when base is no prefix
strip_prefix(path, base) ==
    IF IsPrefix(base, path) THEN { SubSeq(path, Len(base) + 1, Len(path)) } ELSE {}

\* index of the last "." of name, 0 when it has none
LastDot(name) ==
    LET dots == { i \in 1..Len(name) : name[i] = "." }
    IN  IF dots = {} THEN 0 ELSE CHOOSE i \in dots : \A j \in dots : j <= i

\* Path::extension: what follows the last "." of the file name; None for an
\* empty path, a name without ".", and a name whose only "." comes first
extension(path) ==
    IF path = <<>> THEN {}
    ELSE LET name == path[Len(path)]
             i == LastDot(name)
         IN  IF name = <<".", ".">> \/ i = 0 \/ i = 1 THEN {}
             ELSE { SubSeq(name, i + 1, Len(name)) }

\* byte value of a character
Code(c) ==
    CASE c = "." -> 46 [] c = "a" -> 97 [] c = "b" -> 98 [] c = "c" -> 99
      [] c = "h" -> 104 [] c = "l" -> 108 [] c = "n" -> 110 [] c = "q" -> 113
      [] c = "r" -> 114 [] c = "t" -> 116 [] c = "w" -> 119 [] c = "z" -> 122

\* OsString's Ord: byte-wise lexicographic
RECURSIVE NameLt(_, _)
NameLt(x, y) ==
    IF y = <<>> THEN FALSE
    ELSE IF x = <<>> THEN TRUE
    ELSE IF Code(Head(x)) # Code(Head(y)) THEN Code(Head(x)) < Code(Head(y))
    ELSE NameLt(Tail(x), Tail(y))

\* slice::sort_by_key is a stable sort: s ordered by Lt, equal elements in
\* the order they have in s; Lt[x, y] tells whether x sorts before y
StableSort(s, Lt) ==
    LET rank(i) == 1 + Cardinality({ j \in 1..Len(s) :
                         Lt[s[j], s[i]] \/ (j < i /\ ~Lt[s[i], s[j]]) })
    IN  [k \in 1..Len(s) |-> s[CHOOSE i \in 1..Len(s) : rank(i) = k]]

Reverse(s) == [k \in 1..Len(s) |-> s[Len(s) + 1 - k]]

Min(x, y) == IF x <= y THEN x ELSE y

\* the orders in which a hash map may hand out the elements of S
Orders(S) ==
    { v \in [1..Cardinality(S) -> S] : \A i, j \in 1..Cardinality(S) : i # j => v[i] # v[j] }

----------------------------------------------------------------------------
(* Reporting *)

\* the smallest sizes are kept: the key is size, not Reverse(size)
print_top_extensions_smallest(limit, vec, ascending) ==
    LET elems == { vec[k] : k \in 1..Len(vec) }
        Lt == [x \in elems, y \in elems |-> x.size < y.size]
        sorted == StableSort(vec, Lt)
        kept == SubSeq(sorted, 1, Min(limit, Len(sorted)))
    IN  IF ~ascending THEN Reverse(kept) ELSE kept

\* print_top_extensions: the entries in the order they are printed
print_top_extensions(limit, vec, ascending) ==
    LET elems == { vec[k] : k \in 1..Len(vec) }
        Lt == [x \in elems, y \in elems |-> x.size > y.size]   \* key Reverse(size)
        sorted == StableSort(vec, Lt)
        kept == SubSeq(sorted, 1, Min(limit, Len(sorted)))
    IN  IF ~ascending THEN Reverse(kept) ELSE kept

\* the reverse flag is ignored when sorting by size
sort_directories_no_reverse(vec, sort_by, reverse) ==
    LET elems == { vec[k] : k \in 1..Len(vec) }
        NameAsc == [x \in elems, y \in elems |-> NameLt(x.name, y.name)]
        NameDesc == [x \in elems, y \in elems |-> NameLt(y.name, x.name)]
        SizeAsc == [x \in elems, y \in elems |-> x.size < y.size]
    IN  CASE sort_by = "name" /\ reverse -> StableSort(vec, NameDesc)
          [] sort_by = "name" /\ ~reverse -> StableSort(vec, NameAsc)
          [] sort_by = "size" -> StableSort(vec, SizeAsc)

\* the match on sort_by of print_space_usage
sort_directories(vec, sort_by, reverse) ==
    LET elems == { vec[k] : k \in 1..Len(vec) }
        NameAsc == [x \in elems, y \in elems |-> NameLt(x.name, y.name)]
        NameDesc == [x \in elems, y \in elems |-> NameLt(y.name, x.name)]
        SizeAsc == [x \in elems, y \in elems |-> x.size < y.size]
        SizeDesc == [x \in elems, y \in elems |-> x.size > y.size]
    IN  CASE sort_by = "name" /\ reverse -> StableSort(vec, NameDesc)
          [] sort_by = "name" /\ ~reverse -> StableSort(vec, NameAsc)
          [] sort_by = "size" /\ reverse -> StableSort(vec, SizeDesc)
          [] sort_by = "size" /\ ~reverse -> StableSort(vec, SizeAsc)

HeaderLine(limit) == [kind |-> "header", limit |-> limit]
ExtLine(e) == [kind |-> "ext", size |-> e.size, label |-> e.ext]
BlankLine == [kind |-> "blank"]
DirLine(d) == [kind |-> "dir", size |-> d.size, label |-> <<Root, d.name>>]
SeparatorLine == [kind |-> "separator"]
TotalLine(tree) == [kind |-> "total", size |-> tree[<<>>], label |-> <<Root>>]

ExtLines(v) == [k \in 1..Len(v) |-> ExtLine(v[k])]
DirLines(v) == [k \in 1..Len(v) |-> DirLine(v[k])]

\* ext_sizes.into_iter(): the (extension, total) pairs of the map
ExtEntries(m) == { [ext |-> e, size |-> m[e]] : e \in DOMAIN m }

\* dir_tree.children.values(): the immediate children of the root
RootChildren(tree) == { [name |-> p[1], size |-> tree[p]] : p \in { q \in DOMAIN tree : Len(q) = 1 } }

----------------------------------------------------------------------------
(* run *)

ErrEntry == [res |-> "err"]
OkEntry(path, meta) == [res |-> "ok", path |-> path, meta |-> meta]

Parent(rel) == SubSeq(rel, 1, Len(rel) - 1)
Visited(rel) == \E c \in DOMAIN calls : c.path = rel

WalkDirPaths == PathsOver(DirNames, MaxDepth)
WalkFilePaths == { Append(d, f) : d \in PathsOver(DirNames, MaxDepth - 1), f \in FileNames }

\* Metadata of an entry, None when reading it fails
DirMetas == { {}, {[is_dir |-> TRUE, len |-> 0]} }
FileMetas == { {} } \cup { {[is_dir |-> FALSE, len |-> s]} : s \in Sizes }

EntriesSeen == Len(stderr) + BagCardinality(calls)

\* what WalkDir may yield next: an error, the root itself first (a directory
\* or a file), then entries not yet yielded whose parent directory was
\* yielded before them; StrayPath stands for a path outside the root
StrayPath == << <<"q">> >>
Yields ==
    IF walker = "start" THEN
        {ErrEntry} \cup { OkEntry(<<Root>>, m) : m \in DirMetas \cup FileMetas }
    ELSE IF walker = "open" /\ EntriesSeen < MaxEntries THEN
        {ErrEntry}
        \cup { OkEntry(StrayPath, m) : m \in DirMetas }
        \cup { OkEntry(<<Root>> \o rel, m) :
                 rel \in { r \in WalkDirPaths \ {<<>>} : ~Visited(r) /\ DirCall(Parent(r)) \in DOMAIN calls },
                 m \in DirMetas }
        \cup { OkEntry(<<Root>> \o rel, m) :
                 rel \in { r \in WalkFilePaths : ~Visited(r) /\ DirCall(Parent(r)) \in DOMAIN calls },
                 m \in FileMetas }
    ELSE {}

\* the iterator after yielding e
Advance(e) ==
    IF walker = "start" /\ (e.res = "err" \/ e.meta = {} \/ \E m \in e.meta : ~m.is_dir)
    THEN "end" ELSE "open"

Init ==
    /\ dir_tree = DirTreeNew
    /\ ext_sizes = EmptyMap
    /\ pc = "walk"
    /\ opts \in [top_exts : {{}} \cup { {k} : k \in 0..MaxLimit },
                 sort_by : {"name", "size"},
                 reverse : BOOLEAN]
    /\ ext_vec = <<>>
    /\ directories = <<>>
    /\ stdout = <<>>
    /\ stderr = <<>>
    /\ walker = "start"
    /\ calls = EmptyBag

\* Err(e) => eprintln!
WalkError ==
    /\ pc = "walk"
    /\ \E e \in Yields :
        /\ e.res = "err"
        /\ stderr' = Append(stderr, "Unable to read directory structure")
        /\ walker' = Advance(e)
    /\ UNCHANGED <<dir_tree, ext_sizes, pc, opts, ext_vec, directories, stdout, calls>>

\* the error is reported and the loop left, the report follows
StripPrefixEndsLoop ==
    /\ pc = "walk"
    /\ \E e \in Yields :
        /\ e.res = "ok"
        /\ strip_prefix(e.path, <<Root>>) = {}
        /\ pc' = "top_exts"
        /\ stderr' = Append(stderr, "Failed: prefix not found")
        /\ walker' = "end"
    /\ UNCHANGED <<dir_tree, ext_sizes, opts, ext_vec, directories, stdout, calls>>

\* entry.path().strip_prefix(&opts.root)? returns the error: run ends, main reports it
StripPrefixFails ==
    /\ pc = "walk"
    /\ \E e \in Yields :
        /\ e.res = "ok"
        /\ strip_prefix(e.path, <<Root>>) = {}
        /\ pc' = "failed"
        /\ stderr' = Append(stderr, "Failed: prefix not found")
        /\ walker' = Advance(e)
    /\ UNCHANGED <<dir_tree, ext_sizes, opts, ext_vec, directories, stdout, calls>>

\* entry.metadata()? returns the error: run ends, main reports it
MetadataFails ==
    /\ pc = "walk"
    /\ \E e \in Yields :
        /\ e.res = "ok"
        /\ strip_prefix(e.path, <<Root>>) # {}
        /\ e.meta = {}
        /\ pc' = "failed"
        /\ stderr' = Append(stderr, "Failed: metadata")
        /\ walker' = Advance(e)
    /\ UNCHANGED <<dir_tree, ext_sizes, opts, ext_vec, directories, stdout, calls>>

\* meta.is_dir(): dir_tree.add_dir(path)
WalkDirectory ==
    /\ pc = "walk"
    /\ \E e \in Yields :
        /\ e.res = "ok"
        /\ \E path \in strip_prefix(e.path, <<Root>>), meta \in e.meta :
            /\ meta.is_dir
            /\ dir_tree' = add_dir(dir_tree, path)
            /\ calls' = calls (+) SetToBag({DirCall(path)})
        /\ walker' = Advance(e)
    /\ UNCHANGED <<ext_sizes, pc, opts, ext_vec, directories, stdout, stderr>>

\* the extension's total grows although the file has none
add_ext_always(m, ext, size) ==
    LET key == IF ext = {} THEN <<>> ELSE CHOOSE x \in ext : TRUE
    IN  IF key \in DOMAIN m THEN [m EXCEPT ![key] = @ + size] ELSE m @@ (key :> size)

\* if let Some(ext) = path.extension() { *ext_sizes.entry(ext).or_insert(0) += size }
add_ext(m, ext, size) ==
    IF ext = {} THEN m
    ELSE LET key == CHOOSE x \in ext : TRUE
         IN  IF key \in DOMAIN m THEN [m EXCEPT ![key] = @ + size] ELSE m @@ (key :> size)

\* otherwise: dir_tree.add_file(path, size) and the extension's total
WalkFile ==
    /\ pc = "walk"
    /\ \E e \in Yields :
        /\ e.res = "ok"
        /\ \E path \in strip_prefix(e.path, <<Root>>), meta \in e.meta :
            /\ ~meta.is_dir
            /\ dir_tree' = add_file(dir_tree, path, meta.len)
            /\ ext_sizes' = add_ext(ext_sizes, extension(path), meta.len)
            /\ calls' = calls (+) SetToBag({FileCall(path, meta.len)})
        /\ walker' = Advance(e)
    /\ UNCHANGED <<pc, opts, ext_vec, directories, stdout, stderr>>

\* the iterator is exhausted: the for loop ends
WalkDone ==
    /\ pc = "walk"
    /\ walker # "start"
    /\ walker' = "end"
    /\ pc' = "top_exts"
    /\ UNCHANGED <<dir_tree, ext_sizes, opts, ext_vec, directories, stdout, stderr, calls>>

\* opts.top_exts is None
SkipTopExtensions ==
    /\ pc = "top_exts"
    /\ opts.top_exts = {}
    /\ pc' = "space_usage"
    /\ UNCHANGED <<dir_tree, ext_sizes, opts, ext_vec, directories, stdout, stderr, walker, calls>>

\* opts.top_exts is Some(limit): header, print_top_extensions, blank line
PrintTopExtensions ==
    /\ pc = "top_exts"
    /\ \E limit \in opts.top_exts, vec \in Orders(ExtEntries(ext_sizes)) :
        /\ ext_vec' = vec
        /\ stdout' = stdout \o <<HeaderLine(limit)>>
                            \o ExtLines(print_top_extensions(limit, vec, opts.reverse))
                            \o <<BlankLine>>
    /\ pc' = "space_usage"
    /\ UNCHANGED <<dir_tree, ext_sizes, opts, directories, stderr, walker, calls>>

\* print_space_usage: the children, the separator if there are any, the total
PrintSpaceUsage ==
    /\ pc = "space_usage"
    /\ \E vec \in Orders(RootChildren(dir_tree)) :
        /\ directories' = vec
        /\ stdout' = stdout \o DirLines(sort_directories(vec, opts.sort_by, opts.reverse))
                            \o (IF vec # <<>> THEN <<SeparatorLine>> ELSE <<>>)
                            \o <<TotalLine(dir_tree)>>
    /\ pc' = "done"
    /\ UNCHANGED <<dir_tree, ext_sizes, opts, ext_vec, stderr, walker, calls>>

Next ==
    \/ WalkError
    \/ StripPrefixFails
    \/ MetadataFails
    \/ WalkDirectory
    \/ WalkFile
    \/ WalkDone
    \/ SkipTopExtensions
    \/ PrintTopExtensions
    \/ PrintSpaceUsage

Spec == Init /\ [][Next]_vars

----------------------------------------------------------------------------
(* Properties of the tree on its own *)

IsFileCall(c) == c.op = "file"
FileCalls == BagFilter(calls, IsFileCall)

\* total size of the add_file calls whose path lies strictly beneath node p
SizeBeneath(p) ==
    LET Beneath(c) == c.op = "file" /\ IsProperPrefix(p, c.path)
    IN  SumSizes(BagFilter(calls, Beneath))

\* C1 as stated: the size of every node, the root included, is the total
\* size of the add_file calls whose path has the node's path as a proper
\* prefix.
C1_AsStated == \A p \in DOMAIN dir_tree : dir_tree[p] = SizeBeneath(p)

\* C1 amended: the size of every node other than the root is the total size
\* of the add_file calls whose path has the node's path as a proper prefix,
\* and the size of the root is the total size of all add_file calls, a call
\* with the empty path included.
C1_NodeSizes ==
    /\ \A p \in DOMAIN dir_tree \ {<<>>} : dir_tree[p] = SizeBeneath(p)
    /\ dir_tree[<<>>] = SumSizes(FileCalls)

C1_Witness ==
    /\ \E c \in DOMAIN calls : c.op = "file" /\ c.size > 0 /\ Len(c.path) = MaxDepth
    /\ \E c \in DOMAIN calls : c.op = "file" /\ c.size > 0 /\ c.path = <<>>
    /\ \E c \in DOMAIN calls : c.op = "dir" /\ c.path # <<>>

\* C8: a call add_dir(p) leaves the size of every existing node as it was,
\* creates its new nodes with size 0, and calling add_dir(p) again once or
\* twice more gives the tree the first call gave.
C8_AddDirIdempotent ==
    [][\A p \in ApiPaths :
          calls' = calls (+) SetToBag({DirCall(p)}) =>
             /\ \A q \in DOMAIN dir_tree : q \in DOMAIN dir_tree' /\ dir_tree'[q] = dir_tree[q]
             /\ \A q \in DOMAIN dir_tree' \ DOMAIN dir_tree : dir_tree'[q] = 0
             /\ add_dir(dir_tree', p) = dir_tree'
             /\ add_dir(add_dir(dir_tree', p), p) = dir_tree']_vars

C8_Witness ==
    \E c \in DOMAIN calls :
        /\ c.op = "dir" /\ calls[c] >= 2 /\ Len(c.path) = MaxDepth
        /\ dir_tree[SubSeq(c.path, 1, 1)] > 0

\* the paths that the calls made so far turn into nodes
NamedPaths ==
    { q \in ApiPaths \ {<<>>} :
        \E c \in DOMAIN calls :
            \/ c.op = "dir" /\ IsPrefix(q, c.path)
            \/ c.op = "file" /\ IsProperPrefix(q, c.path) }

\* C10: a node exists at p exactly when p is a non-empty prefix of a path
\* given to add_dir or a non-empty proper prefix of a path given to
\* add_file (so no node is ever removed and a file's own name is no node),
\* and a node with no file beneath it has size 0.
C10_NodesExist ==
    /\ DOMAIN dir_tree = NamedPaths \cup {<<>>}
    /\ \A p \in DOMAIN dir_tree \ {<<>>} :
          (\A c \in DOMAIN calls : ~(c.op = "file" /\ IsProperPrefix(p, c.path))) => dir_tree[p] = 0

C10_Witness ==
    /\ \E c \in DOMAIN calls : c.op = "file" /\ Len(c.path) = 1 /\ c.path \notin DOMAIN dir_tree
    /\ \E c \in DOMAIN calls : c.op = "dir" /\ c.path # <<>> /\ dir_tree[c.path] = 0
    /\ \E c \in DOMAIN calls : c.op = "file" /\ Len(c.path) = MaxDepth

----------------------------------------------------------------------------
(* Properties of a run *)

Reported == pc \in {"space_usage", "done"} /\ opts.top_exts # {}
Limit == CHOOSE k \in opts.top_exts : TRUE

IsExtLine(l) == l.kind = "ext"
IsDirLine(l) == l.kind = "dir"
ShownExts == SelectSeq(stdout, IsExtLine)
ShownDirs == SelectSeq(stdout, IsDirLine)

Range(v) == { v[k] : k \in 1..Len(v) }
Ascending(v) == \A i, j \in 1..Len(v) : i < j => v[i].size <= v[j].size
Descending(v) == \A i, j \in 1..Len(v) : i < j => v[i].size >= v[j].size

\* C2 as stated: the extension lines are printed smallest first when the
\* reverse flag is set and largest first when it is not.
C2_AsStated ==
    Reported => IF opts.reverse THEN Ascending(ShownExts) ELSE Descending(ShownExts)

\* C3: the extension report has min(K, number of extensions) lines, each a
\* different entry of the mapping, no entry left out is larger than an
\* entry shown (the sizes shown are the K largest), and the same entries are
\* selected from the collected vector with the opposite reverse flag.
C3_TopK ==
    Reported =>
        LET shown == Range(ShownExts)
            all == Range(ExtLines(ext_vec))
        IN  /\ Len(ShownExts) = Min(Limit, Cardinality(DOMAIN ext_sizes))
            /\ Cardinality(shown) = Len(ShownExts)
            /\ all = { ExtLine(e) : e \in ExtEntries(ext_sizes) }
            /\ shown \subseteq all
            /\ \A l \in shown, o \in all \ shown : l.size >= o.size
            /\ shown = Range(ExtLines(print_top_extensions(Limit, ext_vec, ~opts.reverse)))

C3_Witness ==
    /\ Reported
    /\ Limit >= 1
    /\ Limit < Cardinality(DOMAIN ext_sizes)
    /\ \E e, f \in DOMAIN ext_sizes : ext_sizes[e] < ext_sizes[f]

\* the listing the other setting of the reverse flag gives for the children
\* collected in the order vec
OtherListing(vec) == DirLines(sort_directories(vec, "size", ~opts.reverse))

Listed == pc = "done" /\ opts.sort_by = "size" /\ directories # <<>>

\* C4 as stated: the listing by size with the reverse flag and the one
\* without it are exactly the reverse sequence of each other, children of
\* equal size included.
C4_AsStated == Listed => ShownDirs = Reverse(OtherListing(directories))

\* C4 amended: whatever order the children are collected in, the listing by
\* size with the reverse flag and the one without it contain the same
\* elements and their sequences of sizes are the reverse of each other; the
\* listings are exactly reversed when no two children have the same size.
C4_ReversedSizes ==
    Listed =>
        \A vec \in Orders(RootChildren(dir_tree)) :
            LET other == OtherListing(vec)
                n == Len(ShownDirs)
            IN  /\ Len(other) = n
                /\ Range(other) = Range(ShownDirs)
                /\ \A k \in 1..n : other[k].size = ShownDirs[n + 1 - k].size
                /\ (\A i, j \in 1..n : i # j => ShownDirs[i].size # ShownDirs[j].size)
                       => other = Reverse(ShownDirs)

C4_Witness ==
    /\ Listed
    /\ Len(ShownDirs) >= 2
    /\ ShownDirs[1].size # ShownDirs[2].size

ExtTotal == SumFun(ext_sizes)
RootTotal == dir_tree[<<>>]

\* the file of call c, named by its full path, has an extension
HasExtension(c) == extension(<<Root>> \o c.path) # {}

\* C5 as stated: the extension totals sum to at most the root's size, and
\* to less as soon as a file without extension was processed, of whatever
\* size.
C5_AsStated ==
    /\ ExtTotal <= RootTotal
    /\ (\E c \in DOMAIN calls : c.op = "file" /\ ~HasExtension(c)) => ExtTotal < RootTotal

\* C5 amended: the extension totals sum to at most the root's size, and to
\* less as soon as a file without extension and of non-zero size was
\* processed.
C5_ExtTotalBelowRoot ==
    /\ ExtTotal <= RootTotal
    /\ (\E c \in DOMAIN calls : c.op = "file" /\ ~HasExtension(c) /\ c.size > 0)
           => ExtTotal < RootTotal

C5_Witness ==
    /\ pc = "done"
    /\ \E c \in DOMAIN calls : c.op = "file" /\ ~HasExtension(c) /\ c.size > 0
    /\ ExtTotal > 0

\* C6 as stated: an entry that cannot be read never aborts the run; the only
\* abort is the one for a path outside the scan root.
C6_AsStated == pc = "failed" => stderr[Len(stderr)] = "Failed: prefix not found"

\* C7: nothing is printed before the walk is over, and a run that ended
\* with the error of strip_prefix has printed nothing.
C7_ReportAfterWalk ==
    /\ stdout # <<>> => walker = "end" /\ pc \in {"space_usage", "done"}
    /\ (\E k \in 1..Len(stderr) : stderr[k] = "Failed: prefix not found") => stdout = <<>>

C7_Witness ==
    /\ pc = "failed"
    /\ stderr[Len(stderr)] = "Failed: prefix not found"
    /\ RootTotal > 0
    /\ ext_sizes # EmptyMap

\* C9 as stated: when every file processed has an extension, the extension
\* totals sum to the root's size, also when the scan root is itself a file
\* with an extension.
C9_AsStated ==
    (\A c \in DOMAIN calls : c.op = "file" => HasExtension(c)) => ExtTotal = RootTotal

====
